---- MODULE Spec2Model ----
(***************************************************************************)
(* Model of src/app.py: ProjectDataManager (spreadsheet loader with a      *)
(* modification-time cache, record cleaning, aggregation, search) and the  *)
(* Flask routes that derive views from a snapshot.                         *)
(*                                                                         *)
(* Python strings are sequences of one-character strings.  A non-ASCII     *)
(* character is written "uXXXX" (its code point), so the literal           *)
(* 已开工 is <<"u5df2", "u5f00", "u5de5">>.                        *)
(* A spreadsheet cell is a string, an integer or missing (NaN).            *)
(***************************************************************************)
EXTENDS Integers, Sequences, FiniteSets, TLC

(***************************************************************************)
(* Bounds of the model                                                     *)
(***************************************************************************)
MaxRows == 2
MaxLoaderRows == 1
MaxClock == 1

(***************************************************************************)
(* Cells and Python string primitives                                      *)
(***************************************************************************)
Str(s) == [k |-> "str", s |-> s, n |-> 0]
Num(n) == [k |-> "num", s |-> <<>>, n |-> n]
NaN == [k |-> "nan", s |-> <<>>, n |-> 0]
EmptyStr == Str(<<>>)

Upper == <<"A","B","C","D","E","F","G","H","I","J","K","L","M",
           "N","O","P","Q","R","S","T","U","V","W","X","Y","Z">>
LowerLetters == <<"a","b","c","d","e","f","g","h","i","j","k","l","m",
           "n","o","p","q","r","s","t","u","v","w","x","y","z">>
DigitChars == <<"0","1","2","3","4","5","6","7","8","9">>

\* str.lower() on one character
LowerChar(c) ==
    IF \E i \in 1..26 : Upper[i] = c
    THEN LowerLetters[CHOOSE i \in 1..26 : Upper[i] = c]
    ELSE c

\* str.lower()
Lower(s) == [i \in 1..Len(s) |-> LowerChar(s[i])]

IsSpace(c) == c \in {" ", "\t", "\n"}

\* str.strip(): drop leading and trailing whitespace
Strip(s) ==
    LET keep == {i \in 1..Len(s) : ~IsSpace(s[i])}
    IN IF keep = {} THEN <<>>
       ELSE LET lo == CHOOSE i \in keep : \A j \in keep : i <= j
                hi == CHOOSE i \in keep : \A j \in keep : j <= i
            IN SubSeq(s, lo, hi)

\* Python's "sub in s" on strings
Contains(s, sub) ==
    \E i \in 0..(Len(s) - Len(sub)) : SubSeq(s, i + 1, i + Len(sub)) = sub

RECURSIVE NatDigits(_)
NatDigits(n) ==
    IF n < 10 THEN <<DigitChars[n + 1]>>
    ELSE NatDigits(n \div 10) \o <<DigitChars[(n % 10) + 1]>>

\* str(x) for a cell value
PyStr(c) ==
    IF c.k = "str" THEN c.s
    ELSE IF c.k = "nan" THEN <<"n", "a", "n">>
    ELSE IF c.n < 0 THEN <<"-">> \o NatDigits(0 - c.n)
    ELSE NatDigits(c.n)

\* truth value of a cell in a Python condition
Truthy(c) ==
    IF c.k = "str" THEN c.s # <<>>
    ELSE IF c.k = "num" THEN c.n # 0
    ELSE TRUE

(***************************************************************************)
(* Literals of the source                                                  *)
(***************************************************************************)
YiKaiGong == <<"u5df2", "u5f00", "u5de5">>
WeiKaiGong == <<"u672a", "u5f00", "u5de5">>
YiNaTong == <<"u5df2", "u7eb3", "u7edf">>
Nian == "u5e74"
Yue == "u6708"

\* expected_columns, in the order of the source:
\* seq=序号 name=项目名称 nature=项目性质 unit=责任单位
\* leader=分管区领导 expected_start=预计开工时间 investment=项目总投资
\* progress=项目进展情况 start_status=开工情况 tax_status=纳税情况 remarks=备注
expected_columns ==
    {"seq", "name", "nature", "unit", "leader", "expected_start",
     "investment", "progress", "start_status", "tax_status", "remarks"}

(***************************************************************************)
(* _convert_excel_date                                                     *)
(***************************************************************************)
TimedeltaMaxDays == 106751

\* days from 0000-03-01 (proleptic Gregorian) to 1900-01-01
DaysToBaseDate == 693901

\* year and month of datetime(1900, 1, 1) + Timedelta(days): the civil date
\* of a day count, by 400-year eras of 146097 days
YearMonth(days) ==
    LET z == days + DaysToBaseDate
        era == z \div 146097
        doe == z - era * 146097
        yoe == (doe - (doe \div 1460) + (doe \div 36524) - (doe \div 146096)) \div 365
        doy == doe - (365 * yoe + (yoe \div 4) - (yoe \div 100))
        mp == (5 * doy + 2) \div 153
        m == IF mp < 10 THEN mp + 3 ELSE mp - 9
        y == yoe + era * 400
    IN [year |-> IF m <= 2 THEN y + 1 ELSE y, month |-> m]

Pad2(n) == IF n < 10 THEN <<"0">> \o NatDigits(n) ELSE NatDigits(n)

\* strftime('%Y年%m月')
FormatYearMonth(ym) == NatDigits(ym.year) \o <<Nian>> \o Pad2(ym.month) \o <<Yue>>

convert_excel_date(excel_date) ==
    IF excel_date.k = "num"
    THEN LET days == excel_date.n - 2
         IN IF days > TimedeltaMaxDays \/ days < 0 - TimedeltaMaxDays
            THEN Str(PyStr(excel_date))
            ELSE Str(FormatYearMonth(YearMonth(days)))
    ELSE IF excel_date.k = "str" THEN excel_date
    ELSE Str(PyStr(excel_date))

(***************************************************************************)
(* _clean_data                                                             *)
(***************************************************************************)
\* df.fillna('')
FillNa(c) == IF c.k = "nan" THEN EmptyStr ELSE c

IsDigits(s) == s # <<>> /\ \A i \in 1..Len(s) : \E d \in 1..10 : DigitChars[d] = s[i]

RECURSIVE ParseNat(_)
ParseNat(s) ==
    IF s = <<>> THEN 0
    ELSE 10 * ParseNat(SubSeq(s, 1, Len(s) - 1))
         + ((CHOOSE d \in 1..10 : DigitChars[d] = s[Len(s)]) - 1)

\* pd.to_numeric(errors='coerce').fillna(0) on one cell
ToNumeric(c) ==
    IF c.k = "num" THEN c
    ELSE IF c.k = "str" /\ IsDigits(Strip(c.s)) THEN Num(ParseNat(Strip(c.s)))
    ELSE Num(0)

\* A data frame is [columns |-> set of column names, rows |-> sequence of
\* functions from the columns to cells].
CleanRow(columns, row) ==
    [col \in expected_columns |->
        LET v == IF col \in columns THEN FillNa(row[col]) ELSE EmptyStr
        IN IF col = "investment" THEN ToNumeric(v)
           ELSE IF col = "expected_start" THEN convert_excel_date(v)
           ELSE v]

clean_data(df) ==
    [columns |-> expected_columns,
     rows |-> [i \in 1..Len(df.rows) |-> CleanRow(df.columns, df.rows[i])]]

(***************************************************************************)
(* _process_data                                                           *)
(***************************************************************************)
\* the status compared after trimming
IsStarted_trimmed(project) == Strip(PyStr(project["start_status"])) = YiKaiGong

\* line 106: project_dict.get('开工情况') == '已开工'
IsStarted(project) == project["start_status"] = Str(YiKaiGong)

\* line 112: project_dict.get('纳税情况') == '已纳统'
IsNashuitong(project) == project["tax_status"] = Str(YiNaTong)

\* SelectSeq(rows, test) is the list a loop builds by appending, in order,
\* the rows that satisfy test.

\* if leader and str(leader).strip()
LeaderGrouped(leader) == Truthy(leader) /\ Strip(PyStr(leader)) # <<>>

\* the key of leader_groups under which a record is filed
LeaderKey(leader) == leader

\* leader_groups is a dict: a function from its keys to lists of records
RECURSIVE GroupByLeader(_, _)
GroupByLeader(rows, groups) ==
    IF rows = <<>> THEN groups
    ELSE LET project == Head(rows)
             leader == project["leader"]
         IN IF LeaderGrouped(leader)
            THEN LET key == LeaderKey(leader)
                     old == IF key \in DOMAIN groups THEN groups[key] ELSE <<>>
                 IN GroupByLeader(Tail(rows),
                       [g \in (DOMAIN groups) \cup {key} |->
                           IF g = key THEN Append(old, project) ELSE groups[g]])
            ELSE GroupByLeader(Tail(rows), groups)

EmptyDict == [g \in {} |-> <<>>]

\* t is datetime.now(), kept as the clock reading it was formatted from
process_data(df, t) ==
    LET started_projects == SelectSeq(df.rows, IsStarted)
        not_started_projects == SelectSeq(df.rows, LAMBDA p : ~IsStarted(p))
        nashuitong_projects == SelectSeq(df.rows, IsNashuitong)
    IN [all_data |-> df.rows,
        status_groups |-> [g \in {YiKaiGong, WeiKaiGong} |->
                              IF g = YiKaiGong THEN started_projects
                              ELSE not_started_projects],
        leader_groups |-> GroupByLeader(df.rows, EmptyDict),
        total_count |-> Len(df.rows),
        started_count |-> Len(started_projects),
        nashuitong_count |-> Len(nashuitong_projects),
        last_updated |-> t]

(***************************************************************************)
(* _create_sample_data                                                     *)
(***************************************************************************)
SampleRow(seq, name, nature, unit, leader, start, investment, progress) ==
    [col \in expected_columns |->
        CASE col = "seq" -> Num(seq)
          [] col = "name" -> Str(name)
          [] col = "nature" -> Str(nature)
          [] col = "unit" -> Str(unit)
          [] col = "leader" -> Str(leader)
          [] col = "expected_start" -> Str(start)
          [] col = "investment" -> Num(investment)
          [] col = "progress" -> Str(progress)
          [] col = "start_status" -> Str(YiKaiGong)
          [] col = "tax_status" -> Str(YiNaTong)
          [] OTHER -> EmptyStr]

sample_data == <<
    SampleRow(1,
      <<"u9648", "u6885", "u6e7e", "u5b89", "u7f6e", "u578b", "u5546", "u54c1", "u623f", "P", "uff08", "2", "0", "2", "4", "uff09", "0", "8", "3", "u3001", "0", "9", "8", "u53f7", "u5730", "u5757">>,
      <<"u65b0", "u5f00", "u5de5">>,
      <<"u533a", "u4f4f", "u66f4", "u5c40">>,
      <<"u9648", "u806a">>,
      <<"2", "0", "2", "5", "u5e74", "3", "u6708">>,
      160000,
      <<"u5907", "u6848", "u9879", "u76ee", "uff08", "u4e2d", "u5efa", "u4e8c", "u5c40", "uff09", "u3002">>),
    SampleRow(2,
      <<"u6728", "u5170", "u519c", "u521b", "u4e2d", "u5fc3">>,
      <<"u7eed", "u5efa">>,
      <<"u76d8", "u9f99", "u6c34", "u6295", "u516c", "u53f8">>,
      <<"u962e", "u8bd7", "u519b">>,
      <<"2", "0", "2", "4", "u5e74", "6", "u6708">>,
      150000,
      <<"2", "0", "2", "4", "u5e74", "4", "u6708", "2", "u65e5", "u5df2", "u4e2d", "u6807", "uff08", "u6b66", "u6c49", "u5efa", "u5de5", "u57fa", "u7840", "u8bbe", "u65bd", "u5de5", "u7a0b", "u6709", "u9650", "u516c", "u53f8", "uff0c", "u6b66", "u6c49", "u5e02", "u653f", "u5de5", "u7a0b", "u8bbe", "u8ba1", "u7814", "u7a76", "u9662", "u6709", "u9650", "u8d23", "u4efb", "u516c", "u53f8", "uff0c", "u4e2d", "u4fe1", "u5efa", "u7b51", "u8bbe", "u8ba1", "u7814", "u7a76", "u603b", "u9662", "u6709", "u9650", "u516c", "u53f8", "uff09", "u3002">>),
    SampleRow(3,
      <<"S", "1", "1", "5", "u5b5d", "u660c", "u4eac", "u73e0", "u674e", "u96c6", "u4e92", "u901a", "u81f3", "u9ec4", "u9642", "u533a", "u6539", "u6269", "u5efa">>,
      <<"u7eed", "u5efa">>,
      <<"u533a", "u4ea4", "u901a", "u8fd0", "u8f93", "u5c40">>,
      <<"u5f6d", "u658c", "u7965">>,
      <<"2", "0", "2", "3", "u5e74", "6", "u6708">>,
      105700,
      <<"7", "u6708", "2", "1", "u65e5", "u7533", "u62a5", "u300a", "u6b66", "u6c49", "u73af", "u5883", "u5efa", "u8bbe", "u96c6", "u56e2", "u6709", "u9650", "u8d23", "u4efb", "u516c", "u53f8", "u300b", "u3002">>)
  >>

\* pd.DataFrame(sample_data) passed to _process_data, not to _clean_data
create_sample_data(t) ==
    process_data([columns |-> expected_columns, rows |-> sample_data], t)

(***************************************************************************)
(* search_projects                                                         *)
(***************************************************************************)
\* the remarks searched as well
SearchFields_with_remarks == {"name", "leader", "unit", "progress", "nature", "remarks"}

\* lines 200-204
SearchFields == {"name", "leader", "unit", "progress", "nature"}

Matches(project, query) ==
    \E col \in SearchFields : Contains(Lower(PyStr(project[col])), query)

\* the query lower-cased but not stripped
search_projects_unstripped(query, data) ==
    IF query = <<>> THEN data.all_data
    ELSE LET q == Lower(query)
         IN SelectSeq(data.all_data, LAMBDA project : Matches(project, q))

\* ProjectDataManager.search_projects(query, data) with data given
search_projects(query, data) ==
    IF query = <<>> THEN data.all_data
    ELSE LET q == Strip(Lower(query))
         IN SelectSeq(data.all_data, LAMBDA project : Matches(project, q))

(***************************************************************************)
(* State                                                                   *)
(***************************************************************************)
VARIABLES
    file,           \* data/projects.xlsx: [exists, df, mtime]
    now,            \* the wall clock, in ticks of the file system's timestamp
    cache,          \* data_manager.cache
    last_modified,  \* data_manager.last_modified
    resp,           \* the last request served and what it returned
    threads         \* the calls of load_data in flight, one per worker thread

vars == <<file, now, cache, last_modified, resp, threads>>

None == [none |-> TRUE]
\* last_modified = None; modification times are never negative here
NoneTime == -1

NoFile == [exists |-> FALSE, df |-> [columns |-> {}, rows |-> <<>>], mtime |-> 0]
NoResp == [op |-> "none"]

\* the worker threads of the development server (app.run serves each
\* request in a thread of its own)
Threads == {1, 2}

\* a thread that is not inside load_data: its locals current_modified and
\* df are unset, ret is what its last call returned
IdleThread(ret) ==
    [pc |-> "idle", current_modified |-> NoneTime,
     df |-> [columns |-> {}, rows |-> <<>>], ret |-> ret]

NoThreads == [t \in Threads |-> IdleThread(None)]

(***************************************************************************)
(* load_data                                                               *)
(***************************************************************************)
\* the statements of the try block that can raise
Faults == {"none", "getmtime", "read_excel", "_clean_data", "_process_data"}

\* the comparison of line 33 inverted
cache_hit_inverted(c, lm, current_modified) == c # None /\ current_modified # lm

\* line 33: self.cache is not None and current_modified == self.last_modified
cache_hit(c, lm, current_modified) == c # None /\ current_modified = lm

\* The outcome of one call of load_data: the value returned, the cache
\* fields afterwards, whether read_excel was called and which statement raised.

\* the fallback stored as the cache
on_missing_caching(c, lm, t) ==
    [ret |-> create_sample_data(t), cache |-> create_sample_data(t),
     last_modified |-> lm, read |-> FALSE, raised |-> "none"]

\* lines 27-29: the file does not exist
on_missing(c, lm, t) ==
    [ret |-> create_sample_data(t), cache |-> c, last_modified |-> lm,
     read |-> FALSE, raised |-> "none"]

\* the handler dropping the cached snapshot
on_exception_clearing(c, lm, t, raised) ==
    [ret |-> create_sample_data(t), cache |-> None, last_modified |-> lm,
     read |-> raised # "getmtime", raised |-> raised]

\* lines 51-53: the statement named by raised raised an exception
on_exception(c, lm, t, raised) ==
    [ret |-> create_sample_data(t), cache |-> c, last_modified |-> lm,
     read |-> raised # "getmtime", raised |-> raised]

\* lines 33-34
on_hit(c, lm) ==
    [ret |-> c, cache |-> c, last_modified |-> lm, read |-> FALSE, raised |-> "none"]

\* the cache stamped with the time of the load
reload_stamped_now(f, t) ==
    LET snapshot == process_data(clean_data(f.df), t)
    IN [ret |-> snapshot, cache |-> snapshot, last_modified |-> t,
        read |-> TRUE, raised |-> "none"]

\* lines 36-49
reload(f, t) ==
    LET snapshot == process_data(clean_data(f.df), t)
    IN [ret |-> snapshot, cache |-> snapshot, last_modified |-> f.mtime,
        read |-> TRUE, raised |-> "none"]

\* load_data on file f with cache c and last_modified lm at time t, when
\* the statement named by fault raises if it is reached
load_data(f, c, lm, t, fault) ==
    IF ~f.exists THEN on_missing(c, lm, t)
    ELSE IF fault = "getmtime" THEN on_exception(c, lm, t, fault)
    ELSE IF cache_hit(c, lm, f.mtime) THEN on_hit(c, lm)
    ELSE IF fault # "none" THEN on_exception(c, lm, t, fault)
    ELSE reload(f, t)

\* the statement named by fault is executed by this call
FaultReached(f, c, lm, fault) ==
    \/ fault = "none"
    \/ f.exists /\ fault = "getmtime"
    \/ f.exists /\ ~cache_hit(c, lm, f.mtime)

(***************************************************************************)
(* Routes                                                                  *)
(***************************************************************************)
TitleStarted == <<"u5df2", "u5f00", "u5de5", "u9879", "u76ee">>
TitleNotStarted == <<"u672a", "u5f00", "u5de5", "u9879", "u76ee">>
TitleAll == <<"u6240", "u6709", "u9879", "u76ee">>
TitleLeaderSuffix == <<" ", "u5206", "u7ba1", "u9879", "u76ee">>
TitleNotFound == <<"u672a", "u627e", "u5230", "u76f8", "u5173", "u9879", "u76ee">>

\* an unrecognized key answered with no projects
StatusProjects_strict(status_type, data) ==
    IF status_type = "started" THEN data.status_groups[YiKaiGong]
    ELSE IF status_type = "not-started" THEN data.status_groups[WeiKaiGong]
    ELSE <<>>

\* lines 275-283
StatusProjects(status_type, data) ==
    IF status_type = "started" THEN data.status_groups[YiKaiGong]
    ELSE IF status_type = "not-started" THEN data.status_groups[WeiKaiGong]
    ELSE data.all_data

StatusTitle(status_type) ==
    IF status_type = "started" THEN TitleStarted
    ELSE IF status_type = "not-started" THEN TitleNotStarted
    ELSE TitleAll

\* lines 302-307
LeaderProjects(leader_name, data) ==
    IF Str(leader_name) \in DOMAIN data.leader_groups
    THEN data.leader_groups[Str(leader_name)]
    ELSE <<>>

LeaderTitle(leader_name, data) ==
    IF Str(leader_name) \in DOMAIN data.leader_groups
    THEN leader_name \o TitleLeaderSuffix
    ELSE TitleNotFound

\* what a handler hands to render_template / jsonify, with the call it
\* served: the route, its parameter, the statement that raised, whether
\* read_excel was called and whether a snapshot was cached when it started
Rendered(op, arg, ld, projects, total, started, nashuitong, title) ==
    [op |-> op, arg |-> arg, raised |-> ld.raised, read |-> ld.read,
     cached_before |-> cache # None, data |-> ld.ret, projects |-> projects, total_count |-> total,
     started_count |-> started, nashuitong_count |-> nashuitong,
     page_title |-> title, last_updated |-> ld.ret.last_updated]

\* a filtered view shown with the counts of the whole snapshot
RenderedFiltered_snapshot_counts(op, arg, ld, projects, title) ==
    Rendered(op, arg, ld, projects, ld.ret.total_count, ld.ret.started_count,
             ld.ret.nashuitong_count, title)

\* a filtered view recounts over its own list
RenderedFiltered(op, arg, ld, projects, title) ==
    Rendered(op, arg, ld, projects, Len(projects),
             Len(SelectSeq(projects, IsStarted)),
             Len(SelectSeq(projects, IsNashuitong)), title)

\* every handler starts with data_manager.load_data()
Loaded(fault) == load_data(file, cache, last_modified, now, fault)

\* a handler that empties the record list of the snapshot it was handed,
\* which is the cached object
Serve_truncating(fault) ==
    /\ cache' = IF Loaded(fault).cache = None THEN None
                ELSE [Loaded(fault).cache EXCEPT !.all_data = <<>>]
    /\ last_modified' = Loaded(fault).last_modified

\* the effect of that call on the manager
Serve(fault) ==
    /\ cache' = Loaded(fault).cache
    /\ last_modified' = Loaded(fault).last_modified

index(fault) ==
    /\ FaultReached(file, cache, last_modified, fault)
    /\ Serve(fault)
    /\ resp' =
        LET ld == Loaded(fault)
        IN Rendered("index", <<>>, ld, ld.ret.all_data, ld.ret.total_count,
                      ld.ret.started_count, ld.ret.nashuitong_count, <<>>)
    /\ UNCHANGED <<file, now, threads>>

api_projects(fault) ==
    /\ FaultReached(file, cache, last_modified, fault)
    /\ Serve(fault)
    /\ resp' =
        LET ld == Loaded(fault)
        IN Rendered("api_projects", <<>>, ld, ld.ret.all_data, ld.ret.total_count,
                      ld.ret.started_count, ld.ret.nashuitong_count, <<>>)
    /\ UNCHANGED <<file, now, threads>>

projects_by_status(status_type, fault) ==
    /\ FaultReached(file, cache, last_modified, fault)
    /\ Serve(fault)
    /\ resp' =
        LET ld == Loaded(fault)
        IN RenderedFiltered("projects_by_status", status_type, ld,
                              StatusProjects(status_type, ld.ret),
                              StatusTitle(status_type))
    /\ UNCHANGED <<file, now, threads>>

projects_by_leader(leader_name, fault) ==
    /\ FaultReached(file, cache, last_modified, fault)
    /\ Serve(fault)
    /\ resp' =
        LET ld == Loaded(fault)
        IN RenderedFiltered("projects_by_leader", leader_name, ld,
                              LeaderProjects(leader_name, ld.ret),
                              LeaderTitle(leader_name, ld.ret))
    /\ UNCHANGED <<file, now, threads>>

\* the /search route strips the query before it calls the manager
search_route(q, fault) ==
    /\ FaultReached(file, cache, last_modified, fault)
    /\ Serve(fault)
    /\ resp' =
        LET ld == Loaded(fault)
        IN RenderedFiltered("search_route", q, ld,
                              search_projects(Strip(q), ld.ret), <<>>)
    /\ UNCHANGED <<file, now, threads>>

\* data_manager.search_projects(query) with data=None: loads, then filters
search_call(query, fault) ==
    /\ FaultReached(file, cache, last_modified, fault)
    /\ Serve(fault)
    /\ resp' =
        LET ld == Loaded(fault)
        IN [op |-> "search_projects", arg |-> query, raised |-> ld.raised,
              read |-> ld.read, cached_before |-> cache # None, data |-> ld.ret,
              projects |-> search_projects(query, ld.ret)]
    /\ UNCHANGED <<file, now, threads>>

(***************************************************************************)
(* Inputs: spreadsheets, queries, route parameters                         *)
(***************************************************************************)
ChenCong == <<"u9648", "u806a">>

RawRow(name, nature, unit, leader, progress, start_status, tax_status, remarks) ==
    [col \in expected_columns |->
        CASE col = "seq" -> Num(1)
          [] col = "name" -> name
          [] col = "nature" -> nature
          [] col = "unit" -> unit
          [] col = "leader" -> leader
          [] col = "expected_start" -> Num(45000)
          [] col = "investment" -> Str(<<"1", "2">>)
          [] col = "progress" -> progress
          [] col = "start_status" -> start_status
          [] col = "tax_status" -> tax_status
          [] OTHER -> remarks]

RowStarted ==
    RawRow(Str(<<"A", "b">>), Str(<<"x">>), Str(<<"u">>), Str(ChenCong), NaN,
           Str(YiKaiGong), Str(YiNaTong), NaN)

RowNotStarted ==
    RawRow(Num(12), NaN, Str(<<"v">>), Str(<<" ">> \o ChenCong), Str(<<"p">>),
           Str(WeiKaiGong), NaN, Str(<<"a", "b">>))

\* rows written to the spreadsheet while the loader is exercised
LoaderRows == {RowStarted, RowNotStarted}

\* rows of the spreadsheets the aggregator and the views are exercised on
ViewRows ==
    { RowStarted, RowNotStarted,
      RawRow(Str(<<"c">>), Str(<<"y">>), NaN, Str(<<" ">>), Str(<<"x", "A", "B", " ", "y">>),
             Str(<<" ">> \o YiKaiGong), Str(YiNaTong), Str(<<"z">>)),
      RawRow(Str(<<"d">>), Str(<<"a", "b">>), Num(7), Num(0), NaN,
             Str(YiKaiGong), Str(YiNaTong \o <<" ">>), NaN),
      RawRow(Str(<<"e">>), NaN, Str(<<"w">>), NaN, NaN,
             Str(<<"a", "b">>), Str(YiNaTong), Str(ChenCong)) }

SeqsUpTo(S, n) == UNION {[1..k -> S] : k \in 0..n}

Frame(columns, rows) ==
    [columns |-> columns,
     rows |-> [i \in 1..Len(rows) |-> [col \in columns |-> rows[i][col]]]]

\* the last one is a spreadsheet that lacks two of the expected columns
LoaderFrames ==
    {Frame(expected_columns, rows) : rows \in SeqsUpTo(LoaderRows, MaxLoaderRows)}
    \cup {Frame(expected_columns \ {"tax_status", "remarks"}, <<RowStarted>>)}
ViewFrames == {Frame(expected_columns, rows) : rows \in SeqsUpTo(ViewRows, MaxRows)}

Queries ==
    { <<>>, <<" ", " ">>, <<" ", "A", "B">>, <<"1">>, ChenCong }
StatusTypes == {"started", "not-started", "bogus"}
LeaderNames == { ChenCong, <<" ">> \o ChenCong, <<"0">> }
\* the failures injected while the views are exercised
ViewFaults == {"none", "read_excel"}

(***************************************************************************)
(* The file system                                                         *)
(***************************************************************************)
\* a write stamps the file with the current clock reading
WriteFile(df) ==
    /\ file' = [exists |-> TRUE, df |-> df, mtime |-> now]
    /\ UNCHANGED <<now, cache, last_modified, resp, threads>>

DeleteFile ==
    /\ file.exists
    /\ file' = NoFile
    /\ UNCHANGED <<now, cache, last_modified, resp, threads>>

Tick ==
    /\ now < MaxClock
    /\ now' = now + 1
    /\ UNCHANGED <<file, cache, last_modified, resp, threads>>

(***************************************************************************)
(* Specifications                                                          *)
(***************************************************************************)
LoadRequest(F) ==
    \E fault \in F :
        \/ index(fault)
        \/ api_projects(fault)

ViewRequest(F) ==
    \E fault \in F :
        \/ \E status_type \in StatusTypes : projects_by_status(status_type, fault)
        \/ \E leader_name \in LeaderNames : projects_by_leader(leader_name, fault)
        \/ \E q \in Queries : search_route(q, fault)
        \/ \E query \in Queries : search_call(query, fault)

\* ProjectDataManager.__init__; the spreadsheet is not there yet
Init ==
    /\ file = NoFile
    /\ now = 0
    /\ cache = None
    /\ last_modified = NoneTime
    /\ resp = NoResp
    /\ threads = NoThreads

\* the loader under writes, deletions and failures of the spreadsheet
Next ==
    \/ \E df \in LoaderFrames : WriteFile(df)
    \/ DeleteFile
    \/ Tick
    \/ LoadRequest(Faults)

Spec == Init /\ [][Next]_vars

\* The aggregator and the views on every spreadsheet of ViewFrames: the
\* spreadsheet, if any, is in place at start-up and is not written afterwards.
InitViews ==
    /\ file \in {[exists |-> TRUE, df |-> df, mtime |-> 0] : df \in ViewFrames}
                 \cup {NoFile}
    /\ now = 0
    /\ cache = None
    /\ last_modified = NoneTime
    /\ resp = NoResp
    /\ threads = NoThreads

NextViews ==
    \/ LoadRequest(ViewFaults)
    \/ ViewRequest(ViewFaults)

SpecViews == InitViews /\ [][NextViews]_vars

(***************************************************************************)
(* The loader (Spec)                                                       *)
(***************************************************************************)
LoadOps == {"index", "api_projects"}

\* a step in which a handler ran load_data: the handlers leave the file and
\* the clock alone, every other action changes one of them
LoadStep == resp'.op \in LoadOps /\ UNCHANGED <<file, now>>

\* C1: when the file exists, a snapshot is cached and the modification time
\* load_data reads equals last_modified, the call returns the cached snapshot
\* itself, does not call read_excel, and leaves cache and last_modified as
\* they were.
C1_CacheHitReturnsCache ==
    [][(/\ LoadStep
        /\ file.exists
        /\ cache # None
        /\ file.mtime = last_modified
        /\ resp'.raised = "none")
       => (/\ resp'.data = cache
           /\ ~resp'.read
           /\ cache' = cache
           /\ last_modified' = last_modified)]_vars

\* a hit served after the clock moved on: the snapshot returned is the one
\* stamped at the earlier load
C1_Witness ==
    /\ resp.op \in LoadOps
    /\ resp.raised = "none"
    /\ ~resp.read
    /\ file.exists
    /\ cache # None
    /\ resp.data = cache
    /\ file.mtime = last_modified
    /\ cache.last_updated < now
    /\ cache.total_count > 0

\* C2: when the file does not exist, load_data returns the snapshot of the
\* three built-in sample records, whether or not a snapshot is cached, and
\* cache and last_modified keep their values.
C2_MissingFileReturnsSample ==
    [][(LoadStep /\ ~file.exists)
       => (/\ resp'.data = create_sample_data(now)
           /\ resp'.data.all_data = sample_data
           /\ resp'.data.total_count = 3
           /\ cache' = cache
           /\ last_modified' = last_modified)]_vars

\* the sample served while a snapshot of the deleted file is still cached
C2_Witness ==
    /\ resp.op \in LoadOps
    /\ ~file.exists
    /\ resp.raised = "none"
    /\ resp.data.all_data = sample_data
    /\ cache # None
    /\ cache.all_data # sample_data
    /\ cache.total_count > 0
    /\ last_modified # NoneTime

\* C3: when a statement of a cache-miss load raises, load_data returns the
\* sample snapshot, cache and last_modified are both as before the call, and
\* the two are set or unset together.
C3_ExceptionFallsBack ==
    [][(LoadStep /\ resp'.raised # "none")
       => (/\ resp'.data = create_sample_data(now)
           /\ cache' = cache
           /\ last_modified' = last_modified
           /\ (cache' = None) <=> (last_modified' = NoneTime))]_vars

\* _process_data raised while an older snapshot was cached
C3_Witness ==
    /\ resp.op \in LoadOps
    /\ resp.raised = "_process_data"
    /\ resp.read
    /\ file.exists
    /\ resp.data.all_data = sample_data
    /\ cache # None
    /\ cache.all_data # sample_data
    /\ last_modified # file.mtime

\* C4 as stated: whenever the file's contents differ from those the cached
\* snapshot was built from, the next load_data on the existing, readable
\* file reads it again, returns the snapshot of the current contents and
\* stores it with the file's modification time.
C4_ChangeInvalidatesCache ==
    [][(/\ LoadStep
        /\ file.exists
        /\ resp'.raised = "none"
        /\ cache # None
        /\ cache.all_data # clean_data(file.df).rows)
       => (/\ resp'.read
           /\ resp'.data.all_data = clean_data(file.df).rows
           /\ cache' = resp'.data
           /\ last_modified' = file.mtime)]_vars

\* C4: whenever the file's modification time differs from last_modified, or
\* nothing is cached, load_data on the existing, readable file reads it,
\* returns the snapshot of the contents read and stores that snapshot with
\* the modification time read as the cache.
C4_MtimeChangeInvalidatesCache ==
    [][(/\ LoadStep
        /\ file.exists
        /\ resp'.raised = "none"
        /\ (cache = None \/ file.mtime # last_modified))
       => (/\ resp'.read
           /\ resp'.data.all_data = clean_data(file.df).rows
           /\ resp'.data.last_updated = now
           /\ cache' = resp'.data
           /\ last_modified' = file.mtime)]_vars

\* a reload, after the file was written again at a later time, that
\* replaced the snapshot cached before
C4_Witness ==
    /\ resp.op \in LoadOps
    /\ resp.raised = "none"
    /\ resp.read
    /\ resp.cached_before
    /\ file.exists
    /\ cache = resp.data
    /\ cache.all_data = clean_data(file.df).rows
    /\ cache.total_count > 0
    /\ last_modified = file.mtime
    /\ file.mtime > 0
    /\ cache.last_updated = now

(***************************************************************************)
(* The aggregator and the views (SpecViews)                                *)
(***************************************************************************)
\* the snapshots held in a state: the cached one and the one last served
Snapshots ==
    (IF cache = None THEN {} ELSE {cache})
    \cup (IF resp.op = "none" THEN {} ELSE {resp.data})

\* the elements of seq at the indices of I, in the order of seq
SubseqAt(seq, I) ==
    [k \in 1..Cardinality(I) |->
        seq[CHOOSE i \in I : Cardinality({j \in I : j <= i}) = k]]

Occurs(r, seq) == \E j \in 1..Len(seq) : seq[j] = r

\* C5: in every snapshot the started and not-started buckets partition the
\* record list: the started bucket is the records whose start-status equals
\* the literal exactly, the other bucket is the rest, both in dataset order;
\* the sizes sum to total_count and started_count is the size of the first.
C5_StatusPartition ==
    \A snap \in Snapshots :
        LET all == snap.all_data
            S == {i \in 1..Len(all) : all[i]["start_status"] = Str(YiKaiGong)}
            started == snap.status_groups[YiKaiGong]
            not_started == snap.status_groups[WeiKaiGong]
        IN /\ started = SubseqAt(all, S)
           /\ not_started = SubseqAt(all, (1..Len(all)) \ S)
           /\ Len(started) + Len(not_started) = snap.total_count
           /\ snap.total_count = Len(all)
           /\ snap.started_count = Len(started)

\* a spreadsheet with a started row and a row whose status is the literal
\* behind a blank
C5_Witness ==
    /\ resp.op # "none"
    /\ resp.raised = "none"
    /\ resp.data.total_count = 2
    /\ resp.data.started_count = 1
    /\ resp.data.status_groups[WeiKaiGong][1]["start_status"] = Str(<<" ">> \o YiKaiGong)

\* C6: in every snapshot a record whose leader field is non-blank after
\* trimming is in exactly one leader bucket, a record whose leader field is
\* absent or blank is in none, and each bucket keeps the dataset order.
C6_LeaderBuckets ==
    \A snap \in Snapshots :
        LET all == snap.all_data
            groups == snap.leader_groups
        IN /\ \A i \in 1..Len(all) :
                LET holders == {g \in DOMAIN groups : Occurs(all[i], groups[g])}
                IN IF Strip(PyStr(all[i]["leader"])) # <<>>
                   THEN Cardinality(holders) = 1
                   ELSE holders = {}
           /\ \A g \in DOMAIN groups :
                groups[g] = SubseqAt(all, {i \in 1..Len(all) : all[i]["leader"] = g})

\* C7: two records whose leader strings are equal after trimming are in the
\* same bucket of leader_groups.
C7_TrimmedLeadersMerge ==
    \A snap \in Snapshots :
        LET all == snap.all_data
            groups == snap.leader_groups
        IN \A i, j \in 1..Len(all) :
             (/\ all[i]["leader"].k = "str"
              /\ all[j]["leader"].k = "str"
              /\ Strip(all[i]["leader"].s) # <<>>
              /\ Strip(all[i]["leader"].s) = Strip(all[j]["leader"].s))
             => \E g \in DOMAIN groups :
                    Occurs(all[i], groups[g]) /\ Occurs(all[j], groups[g])

SearchOps == {"search_projects", "search_route"}

\* C8: a search with an empty or all-blank query returns every record of
\* the snapshot, in dataset order.
C8_BlankQueryReturnsAll ==
    (resp.op \in SearchOps /\ Strip(resp.arg) = <<>>)
    => resp.projects = resp.data.all_data

\* the method called with two blanks on a spreadsheet of two different rows
C8_Witness ==
    /\ resp.op = "search_projects"
    /\ resp.arg = <<" ", " ">>
    /\ resp.raised = "none"
    /\ Len(resp.data.all_data) = 2
    /\ resp.data.all_data[1] # resp.data.all_data[2]
    /\ resp.projects = resp.data.all_data

\* C9: a search with a non-blank query returns exactly the records for
\* which the lower-cased string form of the name, leader, unit, progress or
\* nature field contains the lower-cased, trimmed query, in dataset order.
C9_SearchIsFilter ==
    (resp.op \in SearchOps /\ Strip(resp.arg) # <<>>)
    => LET all == resp.data.all_data
           q == Lower(Strip(resp.arg))
           hits == {i \in 1..Len(all) :
                      \E col \in {"name", "leader", "unit", "progress", "nature"} :
                          Contains(Lower(PyStr(all[i][col])), q)}
       IN resp.projects = SubseqAt(all, hits)

\* the query " AB" finds the row named "Ab" and leaves out the row that has
\* "ab" in its remarks only
C9_Witness ==
    /\ resp.op = "search_projects"
    /\ resp.arg = <<" ", "A", "B">>
    /\ resp.raised = "none"
    /\ Len(resp.data.all_data) = 2
    /\ Len(resp.projects) = 1
    /\ resp.projects[1]["name"] = Str(<<"A", "b">>)
    /\ \E i \in 1..2 : resp.data.all_data[i]["remarks"] = Str(<<"a", "b">>)

\* C10: the status view shows the started bucket for "started", the
\* not-started bucket for "not-started" and the full record list for any
\* other key, which is not empty when the snapshot has records.
C10_StatusView ==
    (resp.op = "projects_by_status")
    => /\ resp.arg = "started" => resp.projects = resp.data.status_groups[YiKaiGong]
       /\ resp.arg = "not-started" => resp.projects = resp.data.status_groups[WeiKaiGong]
       /\ resp.arg \notin {"started", "not-started"}
            => /\ resp.projects = resp.data.all_data
               /\ resp.data.total_count > 0 => resp.projects # <<>>

\* "bogus" on a spreadsheet with one started and one other row
C10_Witness ==
    /\ resp.op = "projects_by_status"
    /\ resp.arg = "bogus"
    /\ resp.raised = "none"
    /\ Len(resp.projects) = 2
    /\ Len(resp.data.status_groups[YiKaiGong]) = 1
    /\ Len(resp.data.status_groups[WeiKaiGong]) = 1

ViewOps == {"projects_by_status", "projects_by_leader", "search_route", "search_projects"}

\* a step in which one of the view handlers ran
ViewStep == resp'.op \in ViewOps /\ UNCHANGED <<file, now>>

\* C11 as stated: serving a view request leaves the cached snapshot and
\* last_modified unchanged.
C11_ViewsLeaveCacheUnchanged ==
    [][ViewStep => (cache' = cache /\ last_modified' = last_modified)]_vars

\* C11: a view request changes the cache state only through the load_data
\* call it starts with.  When that call does not reload (a hit, a missing
\* file, an exception) cache and last_modified are unchanged and a hit hands
\* on the cached snapshot as it is; when it reloads, the cache is the whole
\* snapshot loaded, not the filtered list, with the file's modification time.
C11_ViewsOnlyLoad ==
    [][ViewStep =>
        LET reloaded == resp'.read /\ resp'.raised = "none"
        IN /\ ~reloaded => (cache' = cache /\ last_modified' = last_modified)
           /\ (~reloaded /\ resp'.raised = "none" /\ file.exists)
                => resp'.data = cache
           /\ reloaded => (/\ cache' = resp'.data
                           /\ cache'.all_data = clean_data(file.df).rows
                           /\ cache'.total_count = Len(clean_data(file.df).rows)
                           /\ last_modified' = file.mtime)]_vars

\* a view that filtered a cached snapshot of two records down to one
C11_Witness ==
    /\ resp.op \in ViewOps
    /\ resp.raised = "none"
    /\ resp.cached_before
    /\ ~resp.read
    /\ file.exists
    /\ cache = resp.data
    /\ Len(cache.all_data) = 2
    /\ Len(resp.projects) = 1

\* the routes that render a filtered list with its counts
CountedOps == {"projects_by_status", "projects_by_leader", "search_route"}

\* C12: every derived view reports counts taken over its own list:
\* total_count is its length, started_count the number of its records whose
\* start-status is the literal, nashuitong_count the number whose tax-status
\* is the literal.  So the started view has started_count = total_count, the
\* not-started view has started_count = 0, a leader that is not a key of the
\* grouping gets three zeros, and an unrecognized status key gets the counts
\* of the snapshot.
C12_ViewCounts ==
    (resp.op \in CountedOps)
    => LET p == resp.projects
           started == {i \in 1..Len(p) : p[i]["start_status"] = Str(YiKaiGong)}
           registered == {i \in 1..Len(p) : p[i]["tax_status"] = Str(YiNaTong)}
       IN /\ resp.total_count = Len(p)
          /\ resp.started_count = Cardinality(started)
          /\ resp.nashuitong_count = Cardinality(registered)
          /\ (resp.op = "projects_by_status" /\ resp.arg = "started")
               => resp.started_count = resp.total_count
          /\ (resp.op = "projects_by_status" /\ resp.arg = "not-started")
               => resp.started_count = 0
          /\ (resp.op = "projects_by_status"
                /\ resp.arg \notin {"started", "not-started"})
               => /\ resp.total_count = resp.data.total_count
                  /\ resp.started_count = resp.data.started_count
                  /\ resp.nashuitong_count = resp.data.nashuitong_count
          /\ (resp.op = "projects_by_leader"
                /\ Str(resp.arg) \notin DOMAIN resp.data.leader_groups)
               => /\ resp.total_count = 0
                  /\ resp.started_count = 0
                  /\ resp.nashuitong_count = 0

\* the not-started view of a snapshot of two tax-registered records, one of
\* them started: its counts are 1, 0 and 1, the snapshot's are 2, 1 and 2
C12_Witness ==
    /\ resp.op = "projects_by_status"
    /\ resp.arg = "not-started"
    /\ resp.raised = "none"
    /\ resp.total_count = 1
    /\ resp.started_count = 0
    /\ resp.nashuitong_count = 1
    /\ resp.data.total_count = 2
    /\ resp.data.started_count = 1
    /\ resp.data.nashuitong_count = 2

(***************************************************************************)
(* load_data statement by statement, called by several threads (SpecConc)  *)
(***************************************************************************)
\* the thread leaves load_data with the value ret
Returns(t, ret) == threads' = [threads EXCEPT ![t] = IdleThread(ret)]

Goto(t, pc) == threads' = [threads EXCEPT ![t].pc = pc]

\* line 27: os.path.exists; lines 28-29 when the file is not there
check_exists(t) ==
    /\ threads[t].pc = "idle"
    /\ IF file.exists THEN Goto(t, "getmtime")
       ELSE Returns(t, create_sample_data(now))
    /\ UNCHANGED <<file, now, cache, last_modified, resp>>

\* line 32: os.path.getmtime, which raises when the file has been deleted
\* since line 27 (lines 51-53)
get_mtime(t) ==
    /\ threads[t].pc = "getmtime"
    /\ IF file.exists
       THEN threads' = [threads EXCEPT ![t].pc = "compare",
                                       ![t].current_modified = file.mtime]
       ELSE Returns(t, create_sample_data(now))
    /\ UNCHANGED <<file, now, cache, last_modified, resp>>

\* lines 33-34
compare(t) ==
    /\ threads[t].pc = "compare"
    /\ IF cache_hit(cache, last_modified, threads[t].current_modified)
       THEN Returns(t, cache)
       ELSE Goto(t, "read_excel")
    /\ UNCHANGED <<file, now, cache, last_modified, resp>>

\* lines 39-42: pd.read_excel and _clean_data
read_excel(t) ==
    /\ threads[t].pc = "read_excel"
    /\ IF file.exists
       THEN threads' = [threads EXCEPT ![t].pc = "store_cache",
                                       ![t].df = clean_data(file.df)]
       ELSE Returns(t, create_sample_data(now))
    /\ UNCHANGED <<file, now, cache, last_modified, resp>>

\* line 45: self.cache = self._process_data(df)
store_cache(t) ==
    /\ threads[t].pc = "store_cache"
    /\ cache' = process_data(threads[t].df, now)
    /\ Goto(t, "store_mtime")
    /\ UNCHANGED <<file, now, last_modified, resp>>

\* line 46: self.last_modified = current_modified
store_mtime(t) ==
    /\ threads[t].pc = "store_mtime"
    /\ last_modified' = threads[t].current_modified
    /\ Goto(t, "return")
    /\ UNCHANGED <<file, now, cache, resp>>

\* line 49: return self.cache
return_cache(t) ==
    /\ threads[t].pc = "return"
    /\ Returns(t, cache)
    /\ UNCHANGED <<file, now, cache, last_modified, resp>>

\* the spreadsheets written while calls are in flight
ConcFrames ==
    {Frame(expected_columns, <<row>>) : row \in LoaderRows}

\* The spreadsheet is saved again at a later time: here every modification
\* gets a modification time of its own, so that what the interleaving does
\* is not mixed with two writes sharing a timestamp.
RewriteFile(df) ==
    /\ now < MaxClock
    /\ file.exists => df # file.df
    /\ now' = now + 1
    /\ file' = [exists |-> TRUE, df |-> df, mtime |-> now + 1]
    /\ UNCHANGED <<cache, last_modified, resp, threads>>

\* the spreadsheet is in place at start-up
InitConc ==
    /\ file \in {[exists |-> TRUE, df |-> df, mtime |-> 0] : df \in ConcFrames}
    /\ now = 0
    /\ cache = None
    /\ last_modified = NoneTime
    /\ resp = NoResp
    /\ threads = NoThreads

NextConc ==
    \/ \E df \in ConcFrames : RewriteFile(df)
    \/ DeleteFile
    \/ \E t \in Threads :
        \/ check_exists(t)
        \/ get_mtime(t)
        \/ compare(t)
        \/ read_excel(t)
        \/ store_cache(t)
        \/ store_mtime(t)
        \/ return_cache(t)

SpecConc == InitConc /\ [][NextConc]_vars

NoLoadInFlight == \A t \in Threads : threads[t].pc = "idle"

\* C13: whenever no load is in flight, a cached snapshot whose
\* last_modified equals the file's current modification time was built from
\* the file's current contents, so a later cache hit does not return a
\* snapshot of superseded contents.
C13_QuiescentCacheIsCurrent ==
    (/\ NoLoadInFlight
     /\ file.exists
     /\ cache # None
     /\ last_modified = file.mtime)
    => cache.all_data = clean_data(file.df).rows

====
